---- MODULE Spec2Model ----
(***************************************************************************)
(* A model of src/rag.ts: the PDF ingestion pipeline (ingestPDF), the      *)
(* store reader (loadEmbeddings), the retrieval pipeline (queryEmbeddings) *)
(* and the similarity scorer (cosine).                                     *)
(*                                                                         *)
(* Text is a sequence of characters drawn from four classes:               *)
(*   "a"  a printable ASCII character that is not white space              *)
(*   "sp" the space character 0x20                                         *)
(*   "nl" the line feed 0x0A (white space, and on the allow-list)          *)
(*   "cy" a non-space character outside the allow-list (e.g. Cyrillic)     *)
(***************************************************************************)
EXTENDS Integers, Sequences, FiniteSets, TLC

VARIABLES
    ipc,            \* ingestPDF: the await it is suspended at
    data,           \* ingestPDF: loader.load() result
    filteredDocs,   \* ingestPDF: pages kept by the page-level filter
    docs,           \* ingestPDF: textSplitter.splitDocuments() result
    cleanedDocs,    \* ingestPDF: cleaned and stamped chunks
    finalDocs,      \* ingestPDF: chunks kept by the post-cleaning filter
    vectors,        \* ingestPDF: embeddings.embedDocuments() result
    outputFile,     \* the arrays written to outputPath, in order (<<>>: prior content untouched)
    ilog,           \* ingestPDF: external calls made, in order
    ingestResult,   \* ingestPDF: how the promise settled
    qpc,            \* queryEmbeddings: the await it is suspended at
    embeddingsFile, \* the file at embeddingsPath
    envTOP_K,       \* process.env.TOP_K
    items,          \* queryEmbeddings: loadEmbeddings() result
    qEmbedding,     \* queryEmbeddings: embedQuery() result
    skipped,        \* queryEmbeddings: items.length - validItems.length
    sims,           \* queryEmbeddings: the scored records, sorted
    top,            \* queryEmbeddings: sims.slice(0, TOP_K)
    context,        \* queryEmbeddings: the context blocks, in order
    qlog,           \* queryEmbeddings: external calls made, in order
    queryResult,    \* queryEmbeddings: how the promise settled
    cpc,            \* cosine: called or returned
    a,              \* cosine: first argument
    b,              \* cosine: second argument
    cosineResult    \* cosine: the value returned

ivars == <<ipc, data, filteredDocs, docs, cleanedDocs, finalDocs, vectors,
           outputFile, ilog, ingestResult>>
qvars == <<qpc, embeddingsFile, envTOP_K, items, qEmbedding, skipped, sims, top,
           context, qlog, queryResult>>
cvars == <<cpc, a, b, cosineResult>>
vars == <<ivars, qvars, cvars>>

----------------------------------------------------------------------------
(* Bounds of the model *)

MaxPages == 2     \* pages of a PDF
MaxItems == 3     \* records of a store file
MaxDim == 3       \* elements of a vector handed to cosine

----------------------------------------------------------------------------
(* Configuration (src/rag.ts lines 10-14) *)

DEFAULT_TOP_K == 9

MIN_CONTENT_LENGTH == 20
MIN_WORD_COUNT == 5

----------------------------------------------------------------------------
(* Numbers: a JavaScript number is an integer of the model or NaN *)

Num(n) == [nan |-> FALSE, v |-> n]
NaN == [nan |-> TRUE, v |-> 0]

----------------------------------------------------------------------------
(* Strings *)

WhiteSpace == {"sp", "nl"}

SetMin(S) == CHOOSE x \in S : \A y \in S : x <= y
SetMax(S) == CHOOSE x \in S : \A y \in S : x >= y

\* String.prototype.trim
trim(t) ==
    LET keep == {i \in 1..Len(t) : t[i] \notin WhiteSpace}
    IN  IF keep = {} THEN <<>> ELSE SubSeq(t, SetMin(keep), SetMax(keep))

\* String.prototype.split(/\s+/): the pieces between maximal white-space runs
RECURSIVE splitWs(_)
splitWs(t) ==
    LET ws == {i \in 1..Len(t) : t[i] \in WhiteSpace}
    IN  IF ws = {} THEN <<t>>
        ELSE LET i == SetMin(ws)
                 rest == {j \in (i + 1)..Len(t) : t[j] \notin WhiteSpace}
                 j == IF rest = {} THEN Len(t) + 1 ELSE SetMin(rest)
             IN  <<SubSeq(t, 1, i - 1)>> \o splitWs(SubSeq(t, j, Len(t)))

LongerThanZero(word) == Len(word) > 0

countWords(text) == Len(SelectSeq(splitWs(trim(text)), LongerThanZero))

\* String.prototype.replace(/[S]+/g, " "): every maximal run of characters of S
\* becomes one space
RECURSIVE replaceRuns(_, _)
replaceRuns(t, S) ==
    IF t = <<>> THEN <<>>
    ELSE IF t[1] \notin S THEN <<t[1]>> \o replaceRuns(Tail(t), S)
    ELSE LET rest == {j \in 2..Len(t) : t[j] \notin S}
             j == IF rest = {} THEN Len(t) + 1 ELSE SetMin(rest)
         IN  <<"sp">> \o replaceRuns(SubSeq(t, j, Len(t)), S)

\* The allow-list of line 123: printable ASCII, LF, CR and the Arabic ranges
OnAllowList(c) == c \in {"a", "sp", "nl"}

cleanContent(pageContent) ==
    SelectSeq(trim(replaceRuns(replaceRuns(pageContent, WhiteSpace), {"nl"})), OnAllowList)

----------------------------------------------------------------------------
(* The texts a PDF page may carry *)

Rep(c, n) == [i \in 1..n |-> c]

\* Words of the given lengths, separated by single spaces
RECURSIVE Words(_)
Words(lens) ==
    IF lens = <<>> THEN <<>>
    ELSE IF Len(lens) = 1 THEN Rep("a", lens[1])
    ELSE Rep("a", lens[1]) \o <<"sp">> \o Words(Tail(lens))

TextEmpty == <<>>                                        \* an image-only page
Text20 == Words(<<5, 4, 3, 3, 1>>)                       \* 20 characters, 5 words
Text21 == Words(<<5, 4, 3, 3, 2>>)                       \* 21 characters, 5 words
TextPadded == <<"sp", "nl">> \o Text20 \o <<"nl">>       \* 23 characters, 20 when trimmed
TextFourWords == Words(<<6, 6, 6, 6>>)                   \* 27 characters, 4 words
TextRagged == Words(<<5, 4>>) \o <<"nl", "nl">> \o Words(<<3, 3>>) \o <<"sp", "sp">> \o Words(<<2>>)
TextMixed == Words(<<1, 1, 1, 1, 1>>) \o <<"sp">> \o Rep("cy", 12)   \* 5 short words and a Cyrillic one
TextCyrillic == Rep("cy", 5) \o <<"sp">> \o Rep("cy", 5) \o <<"sp">> \o Rep("cy", 5)
                    \o <<"sp">> \o Rep("cy", 5) \o <<"sp">> \o Rep("cy", 5)

PageTexts == {TextEmpty, Text20, Text21, TextPadded, TextFourWords, TextRagged,
              TextMixed, TextCyrillic}

\* metadata.source as the loader sets it; "undefined" stands for an absent key
Sources == {"book.pdf", "undefined"}

\* What loader.load() may return: one document per page
Page(text, source, n) ==
    [pageContent |-> text, metadata |-> [source |-> source, pageNumber |-> n]]

LoaderResults ==
    UNION {{[i \in 1..k |-> Page(texts[i], source, i)] :
                texts \in [1..k -> PageTexts], source \in Sources} : k \in 0..MaxPages}

----------------------------------------------------------------------------
(* ingestPDF *)

\* (mutant of KeepPage: the length test is not strict)
KeepPageAtLeast(doc) ==
    /\ Len(trim(doc.pageContent)) >= MIN_CONTENT_LENGTH
    /\ countWords(trim(doc.pageContent)) >= MIN_WORD_COUNT

\* Lines 81-85: the page-level filter
KeepPage(doc) ==
    /\ Len(trim(doc.pageContent)) > MIN_CONTENT_LENGTH
    /\ countWords(trim(doc.pageContent)) >= MIN_WORD_COUNT

\* What splitDocuments() may return for one document: no chunk, the whole text,
\* or the text cut in two; every chunk carries the document's metadata
Chunk(text, doc) == [pageContent |-> text, metadata |-> doc.metadata]

SplitsOf(doc) ==
    LET t == doc.pageContent
        k == Len(t) \div 2
    IN  {<<>>, <<Chunk(t, doc)>>}
            \cup (IF k >= 1 THEN {<<Chunk(SubSeq(t, 1, k), doc), Chunk(SubSeq(t, k + 1, Len(t)), doc)>>}
                  ELSE {})

RECURSIVE SplitterResults(_)
SplitterResults(ds) ==
    IF ds = <<>> THEN {<<>>}
    ELSE {first \o rest : first \in SplitsOf(ds[1]), rest \in SplitterResults(Tail(ds))}

\* (mutant of CleanDoc: chunkIndex counts from one)
CleanDocOneBased(d, i) ==
    [pageContent |-> cleanContent(d.pageContent),
     metadata |-> [source |-> IF d.metadata.source = "undefined" THEN "" ELSE d.metadata.source,
                   pageNumber |-> d.metadata.pageNumber,
                   chunkIndex |-> i + 1]]

\* Lines 115-130: clean the text, stamp chunkIndex and source
CleanDoc(d, i) ==
    [pageContent |-> cleanContent(d.pageContent),
     metadata |-> [source |-> IF d.metadata.source = "undefined" THEN "" ELSE d.metadata.source,
                   pageNumber |-> d.metadata.pageNumber,
                   chunkIndex |-> i]]

\* Line 133: the post-cleaning filter
KeepCleaned(doc) ==
    /\ Len(doc.pageContent) > 0
    /\ countWords(doc.pageContent) >= MIN_WORD_COUNT

\* What embedDocuments() may return: one vector per text, in the order of the texts
EmbedResults(n) ==
    {[i \in 1..n |-> <<Num(i), Num(1)>>], [i \in 1..n |-> <<Num(1), Num(i)>>]}

\* Line 155: `chunk-${index}`
ChunkId(index) == <<"chunk-", index>>

\* (mutant of EmbeddingRecord: the id is taken from the chunk's chunkIndex)
EmbeddingRecordByChunkIndex(doc, index, vs) ==
    [id |-> ChunkId(doc.metadata.chunkIndex), text |-> doc.pageContent,
     embedding |-> vs[index + 1], metadata |-> doc.metadata]

\* Lines 154-159: index is zero-based
EmbeddingRecord(doc, index, vs) ==
    [id |-> ChunkId(index), text |-> doc.pageContent, embedding |-> vs[index + 1],
     metadata |-> doc.metadata]

embeddingsWithMetadata(fds, vs) ==
    [i \in 1..Len(fds) |-> EmbeddingRecord(fds[i], i - 1, vs)]

\* (mutant of writeFileSync: an empty array is not saved)
writeUnlessEmpty(file, array) == IF array = <<>> THEN file ELSE Append(file, array)

\* fs.writeFileSync(outputPath, JSON.stringify(array)): the file is overwritten
writeFileSync(file, array) == Append(file, array)

\* (mutant of CatchRethrow: the error is logged and swallowed)
CatchSwallow(error) == [kind |-> "returned", error |-> "none"]

\* Lines 163-166: the catch block logs and rethrows
CatchRethrow(error) == [kind |-> "threw", error |-> error]

Returned == [kind |-> "returned", error |-> "none"]
Running == [kind |-> "running", error |-> "none"]

IngestInit ==
    /\ ipc = "load"
    /\ data = <<>>
    /\ filteredDocs = <<>>
    /\ docs = <<>>
    /\ cleanedDocs = <<>>
    /\ finalDocs = <<>>
    /\ vectors = <<>>
    /\ outputFile = <<>>
    /\ ilog = <<"loader.load">>
    /\ ingestResult = Running

\* Lines 52-103: loader.load() resolves; filter the pages; an empty result is saved
LoaderReturns(pages) ==
    /\ UNCHANGED <<qvars, cvars>>
    /\ ipc = "load"
    /\ data' = pages
    /\ filteredDocs' = SelectSeq(pages, KeepPage)
    /\ IF filteredDocs' = <<>>
       THEN /\ outputFile' = writeFileSync(outputFile, <<>>)
            /\ ilog' = Append(ilog, "fs.writeFileSync")
            /\ ipc' = "done"
            /\ ingestResult' = Returned
       ELSE /\ ilog' = Append(ilog, "textSplitter.splitDocuments")
            /\ ipc' = "split"
            /\ UNCHANGED <<outputFile, ingestResult>>
    /\ UNCHANGED <<docs, cleanedDocs, finalDocs, vectors>>

LoaderThrows ==
    /\ UNCHANGED <<qvars, cvars>>
    /\ ipc = "load"
    /\ ipc' = "done"
    /\ ingestResult' = CatchRethrow("loader")
    /\ UNCHANGED <<data, filteredDocs, docs, cleanedDocs, finalDocs, vectors, outputFile, ilog>>

\* Lines 103-150: splitDocuments() resolves; clean, stamp and filter the chunks
SplitterReturns(chunks) ==
    /\ UNCHANGED <<qvars, cvars>>
    /\ ipc = "split"
    /\ docs' = chunks
    /\ IF chunks = <<>>
       THEN /\ outputFile' = writeFileSync(outputFile, <<>>)
            /\ ilog' = Append(ilog, "fs.writeFileSync")
            /\ ipc' = "done"
            /\ ingestResult' = Returned
            /\ UNCHANGED <<cleanedDocs, finalDocs>>
       ELSE /\ cleanedDocs' = [i \in 1..Len(chunks) |-> CleanDoc(chunks[i], i - 1)]
            /\ finalDocs' = SelectSeq(cleanedDocs', KeepCleaned)
            /\ IF finalDocs' = <<>>
               THEN /\ outputFile' = writeFileSync(outputFile, <<>>)
                    /\ ilog' = Append(ilog, "fs.writeFileSync")
                    /\ ipc' = "done"
                    /\ ingestResult' = Returned
               ELSE /\ ilog' = Append(ilog, "embeddings.embedDocuments")
                    /\ ipc' = "embed"
                    /\ UNCHANGED <<outputFile, ingestResult>>
    /\ UNCHANGED <<data, filteredDocs, vectors>>

SplitterThrows ==
    /\ UNCHANGED <<qvars, cvars>>
    /\ ipc = "split"
    /\ ipc' = "done"
    /\ ingestResult' = CatchRethrow("splitter")
    /\ UNCHANGED <<data, filteredDocs, docs, cleanedDocs, finalDocs, vectors, outputFile, ilog>>

\* Lines 150-162: embedDocuments() resolves; assemble the records and save them
EmbedReturns(vs) ==
    /\ UNCHANGED <<qvars, cvars>>
    /\ ipc = "embed"
    /\ vectors' = vs
    /\ outputFile' = writeFileSync(outputFile, embeddingsWithMetadata(finalDocs, vs))
    /\ ilog' = Append(ilog, "fs.writeFileSync")
    /\ ipc' = "done"
    /\ ingestResult' = Returned
    /\ UNCHANGED <<data, filteredDocs, docs, cleanedDocs, finalDocs>>

EmbedThrows ==
    /\ UNCHANGED <<qvars, cvars>>
    /\ ipc = "embed"
    /\ ipc' = "done"
    /\ ingestResult' = CatchRethrow("embeddings")
    /\ UNCHANGED <<data, filteredDocs, docs, cleanedDocs, finalDocs, vectors, outputFile, ilog>>

IngestNext ==
    \/ \E pages \in LoaderResults : LoaderReturns(pages)
    \/ LoaderThrows
    \/ \E chunks \in SplitterResults(filteredDocs) : SplitterReturns(chunks)
    \/ SplitterThrows
    \/ \E vs \in EmbedResults(Len(finalDocs)) : EmbedReturns(vs)
    \/ EmbedThrows

----------------------------------------------------------------------------
(* cosine                                                                  *)
(*                                                                         *)
(* The quotient dot / (sqrt(na) * sqrt(nb)) is not an integer.  A score c  *)
(* is held exactly as the fraction sign(c) * c^2 = sign(dot) * dot^2 /     *)
(* (na * nb) in lowest terms, <<numerator, denominator>>, which orders as  *)
(* c does: <<0, 1>> is the score 0 and <<1, 1>> the score 1.  The rounding *)
(* of floating-point arithmetic is not modelled.                           *)

RECURSIVE Gcd(_, _)
Gcd(m, n) == IF n = 0 THEN m ELSE Gcd(n, m % n)

Abs(n) == IF n < 0 THEN -n ELSE n
Sign(n) == IF n < 0 THEN -1 ELSE IF n > 0 THEN 1 ELSE 0

Fraction(num, den) ==
    LET g == Gcd(Abs(num), den) IN <<num \div g, den \div g>>

Zero == <<0, 1>>
One == <<1, 1>>

\* Lines 27-28: Number(x) || 0
NumberOrZero(x) == IF x.nan THEN 0 ELSE x.v

\* Lines 22-32: the loop, for one of its three sums: x[0]*y[0] + ... + x[len-1]*y[len-1]
RECURSIVE SumOfProducts(_, _, _)
SumOfProducts(x, y, len) ==
    IF len = 0 THEN 0
    ELSE SumOfProducts(x, y, len - 1) + NumberOrZero(x[len]) * NumberOrZero(y[len])

\* Line 19: Math.min(a.length, b.length)
MinLength(x, y) == IF Len(x) <= Len(y) THEN Len(x) ELSE Len(y)

\* (mutant of cosine: each magnitude is taken over the whole of its vector)
cosineWholeMagnitudes(x, y) ==
    LET len == MinLength(x, y)
        dot == SumOfProducts(x, y, len)
        na == SumOfProducts(x, x, Len(x))
        nb == SumOfProducts(y, y, Len(y))
    IN  IF len = 0 THEN Zero
        ELSE IF na = 0 \/ nb = 0 THEN Zero
        ELSE Fraction(Sign(dot) * dot * dot, na * nb)

\* Lines 17-36, for arguments that are arrays (line 18 returns 0 for the others)
cosine(x, y) ==
    LET len == MinLength(x, y)
        dot == SumOfProducts(x, y, len)
        na == SumOfProducts(x, x, len)
        nb == SumOfProducts(y, y, len)
    IN  IF len = 0 THEN Zero
        ELSE IF na = 0 \/ nb = 0 THEN Zero
        ELSE Fraction(Sign(dot) * dot * dot, na * nb)

\* The vectors cosine is called with
Elements == {NaN, Num(-1), Num(0), Num(1)}
Vectors == UNION {[1..n -> Elements] : n \in 0..MaxDim}

NoResult == [returned |-> FALSE, value |-> Zero]

CosineInit ==
    /\ cpc = "called"
    /\ a \in Vectors
    /\ b \in Vectors
    /\ cosineResult = NoResult

CosineIdle ==
    /\ cpc = "idle"
    /\ a = <<>>
    /\ b = <<>>
    /\ cosineResult = NoResult

CosineReturns ==
    /\ cpc = "called"
    /\ cpc' = "returned"
    /\ cosineResult' = [returned |-> TRUE, value |-> cosine(a, b)]
    /\ UNCHANGED <<a, b, ivars, qvars>>

----------------------------------------------------------------------------
(* The store file: JSON values *)

JUndefined == [t |-> "undefined"]                 \* the key is absent
JNull == [t |-> "null"]
JNumber(n) == [t |-> "number", n |-> n]
JString(chars) == [t |-> "string", chars |-> chars]
JArray(elems) == [t |-> "array", elems |-> elems]
JObject(pageNumber) == [t |-> "object", pageNumber |-> pageNumber]
\* A string holding JSON text: what JSON.parse makes of it, when it is JSON at all
JText(isJSON, value) == [t |-> "string", isJSON |-> isJSON, value |-> value]

Digits == {"0", "1", "2"}
DigitValue(c) == IF c = "0" THEN 0 ELSE IF c = "1" THEN 1 ELSE 2

RECURSIVE Decimal(_)
Decimal(chars) ==
    IF chars = <<>> THEN 0
    ELSE 10 * Decimal(SubSeq(chars, 1, Len(chars) - 1)) + DigitValue(chars[Len(chars)])

\* Number(v) of JavaScript
Number(v) ==
    CASE v.t = "number" -> Num(v.n)
      [] v.t = "null" -> Num(0)
      [] v.t = "string" ->
            IF \A i \in 1..Len(v.chars) : v.chars[i] \in Digits
            THEN Num(Decimal(v.chars)) ELSE NaN
      [] OTHER -> NaN

\* Whether `v || []` is v
Truthy(v) ==
    CASE v.t = "undefined" -> FALSE
      [] v.t = "null" -> FALSE
      [] v.t = "number" -> v.n # 0
      [] v.t = "string" -> v.chars # <<>>
      [] OTHER -> TRUE

\* The records a store file may hold; the record at position i has id chunk-(i-1)
RawEmbeddings ==
    <<JArray(<<JNumber(1), JNumber(0)>>),
      JArray(<<JNumber(0), JNumber(1)>>),
      JArray(<<JString(<<"x">>), JNumber(1)>>),             \* a non-numeric entry
      JArray(<<JString(<<"2">>), JNumber(1), JNull>>),      \* a numeric string, a null
      JUndefined,                                            \* no embedding key
      JArray(<<>>),                                          \* an empty embedding
      JString(<<"x">>),                                      \* an embedding that is no array
      JArray(<<JNumber(1), JNumber(1)>>)>>

RawMetadata ==
    <<JObject(1),
      JText(TRUE, JObject(2)),                               \* double-encoded metadata
      JObject(3), JObject(4), JObject(5), JObject(6), JObject(7),
      JText(FALSE, JNull)>>                                  \* a string that is not JSON

ItemKinds == 1..Len(RawEmbeddings)

RawItem(kind, i) ==
    [id |-> <<"chunk-", i - 1>>, text |-> <<"text", kind>>,
     embedding |-> RawEmbeddings[kind], metadata |-> RawMetadata[kind]]

\* The file at embeddingsPath: missing, not JSON, JSON that is no array, or an array
StoreFiles ==
    {[state |-> st, array |-> <<>>] : st \in {"missing", "garbage", "object"}}
        \cup UNION {{[state |-> "array", array |-> [i \in 1..n |-> RawItem(kinds[i], i)]] :
                        kinds \in [1..n -> ItemKinds]} : n \in 0..MaxItems}

----------------------------------------------------------------------------
(* loadEmbeddings *)

\* (mutant of MapNumber: (v) => Number(v) || 0)
MapNumberOrZero(embedding) ==
    IF Truthy(embedding)
    THEN [i \in 1..Len(embedding.elems) |-> Num(NumberOrZero(Number(embedding.elems[i])))]
    ELSE <<>>

\* Line 178: (item.embedding || []).map((v) => Number(v))
MapNumber(embedding) ==
    IF Truthy(embedding)
    THEN [i \in 1..Len(embedding.elems) |-> Number(embedding.elems[i])]
    ELSE <<>>

\* Line 180
ParseMetadata(metadata) ==
    IF metadata.t = "string" THEN metadata.value ELSE metadata

\* Lines 176-181: one element of the array
LoadItem(item) ==
    [id |-> item.id, embedding |-> MapNumber(item.embedding), text |-> item.text,
     metadata |-> ParseMetadata(item.metadata)]

\* Lines 177-180: what evaluating one element throws
ItemError(item) ==
    IF Truthy(item.embedding) /\ item.embedding.t # "array"
    THEN "TypeError"                                   \* (item.embedding || []).map
    ELSE IF item.metadata.t = "string" /\ ~item.metadata.isJSON
    THEN "SyntaxError"                                 \* JSON.parse(item.metadata)
    ELSE "none"

\* Lines 173-181: what the try block throws
LoadError(file) ==
    CASE file.state = "missing" -> "ENOENT"            \* readFileSync
      [] file.state = "garbage" -> "SyntaxError"       \* JSON.parse
      [] file.state = "object" -> "TypeError"          \* embeddingsData.map
      [] OTHER ->
            LET bad == {i \in 1..Len(file.array) : ItemError(file.array[i]) # "none"}
            IN  IF bad = {} THEN "none" ELSE ItemError(file.array[SetMin(bad)])

loadEmbeddings(file) == [i \in 1..Len(file.array) |-> LoadItem(file.array[i])]


\* Lines 185-188: the catch block logs and rethrows
LoadCatchRethrow(error) == [kind |-> "threw", error |-> error]

----------------------------------------------------------------------------
(* queryEmbeddings *)

\* What embedQuery() may resolve to: a vector, an empty array, or no array
EmbedQueryResults ==
    {[isArray |-> TRUE, elems |-> <<Num(1), Num(0)>>],
     [isArray |-> TRUE, elems |-> <<Num(2), Num(1)>>],
     [isArray |-> TRUE, elems |-> <<>>],
     [isArray |-> FALSE, elems |-> <<>>]}

\* process.env.TOP_K: unset, or a string of digits
EnvValues == {<<>>, <<"0">>, <<"1">>, <<"2">>}

\* Line 224: Number(process.env.TOP_K || DEFAULT_TOP_K)
TOP_K(env) == IF env = <<>> THEN DEFAULT_TOP_K ELSE Decimal(env)

\* Line 211 (the embedding of a loaded item is always an array)
HasEmbedding(it) == Len(it.embedding) > 0

\* Lines 215-220
Scored(it, q) ==
    [id |-> it.id, score |-> cosine(q, it.embedding), text |-> it.text,
     metadata |-> it.metadata]

\* (mutant of compare: (x, y) => x.score - y.score)
compareAscending(x, y) == Sign(x.score[1] * y.score[2] - y.score[1] * x.score[2])

\* Line 222: the comparator (x, y) => y.score - x.score, by its sign
compare(x, y) == Sign(y.score[1] * x.score[2] - x.score[1] * y.score[2])

\* Array.prototype.sort with the comparator of line 222: a stable sort, so an
\* element goes after every element the comparator does not put after it
Insert(sorted, x) ==
    LET k == Cardinality({i \in 1..Len(sorted) : compare(sorted[i], x) <= 0})
    IN  SubSeq(sorted, 1, k) \o <<x>> \o SubSeq(sorted, k + 1, Len(sorted))

RECURSIVE sort(_)
sort(s) ==
    IF s = <<>> THEN <<>> ELSE Insert(sort(SubSeq(s, 1, Len(s) - 1)), s[Len(s)])

\* Line 225: Array.prototype.slice(0, end) for end >= 0
slice(s, end) == SubSeq(s, 1, IF end <= Len(s) THEN end ELSE Len(s))

\* Lines 246-248: one block per selected record (the score's four decimals
\* are left out of the block)
ContextBlock(t, i) == [rank |-> i + 1, id |-> t.id, text |-> t.text]

\* (mutant of QueryCatchRethrow: the error is logged and swallowed)
QueryCatchSwallow(error) == [kind |-> "returned", error |-> "none"]

\* Lines 268-271: the catch block logs and rethrows
QueryCatchRethrow(error) == [kind |-> "threw", error |-> error]

NoEmbedding == [isArray |-> FALSE, elems |-> <<>>]

QueryInit ==
    /\ qpc = "load"
    /\ embeddingsFile \in StoreFiles
    /\ envTOP_K \in EnvValues
    /\ items = <<>>
    /\ qEmbedding = NoEmbedding
    /\ skipped = 0
    /\ sims = <<>>
    /\ top = <<>>
    /\ context = <<>>
    /\ qlog = <<>>
    /\ queryResult = Running

QueryIdle ==
    /\ qpc = "idle"
    /\ embeddingsFile = [state |-> "missing", array |-> <<>>]
    /\ envTOP_K = <<>>
    /\ items = <<>>
    /\ qEmbedding = NoEmbedding
    /\ skipped = 0
    /\ sims = <<>>
    /\ top = <<>>
    /\ context = <<>>
    /\ qlog = <<>>
    /\ queryResult = Running

\* Lines 195-204: loadEmbeddings() returns the items; embedQuery() is called
LoadReturns ==
    /\ qpc = "load"
    /\ LoadError(embeddingsFile) = "none"
    /\ items' = loadEmbeddings(embeddingsFile)
    /\ qlog' = qlog \o <<"fs.readFileSync", "embeddings.embedQuery">>
    /\ qpc' = "embed"
    /\ UNCHANGED <<embeddingsFile, envTOP_K, qEmbedding, skipped, sims, top, context,
                   queryResult>>
    /\ UNCHANGED <<ivars, cvars>>

\* Lines 195, 185-188, 268-271: loadEmbeddings() throws
LoadThrows ==
    /\ qpc = "load"
    /\ LoadError(embeddingsFile) # "none"
    /\ qlog' = Append(qlog, "fs.readFileSync")
    /\ qpc' = "done"
    /\ queryResult' = QueryCatchRethrow(LoadCatchRethrow(LoadError(embeddingsFile)).error)
    /\ UNCHANGED <<embeddingsFile, envTOP_K, items, qEmbedding, skipped, sims, top, context>>
    /\ UNCHANGED <<ivars, cvars>>

\* Lines 204-263: embedQuery() resolves; filter, score, rank, build the context
\* and call the chat model
EmbedQueryReturns(q) ==
    /\ qpc = "embed"
    /\ qEmbedding' = q
    /\ IF ~q.isArray \/ Len(q.elems) = 0
       THEN /\ qpc' = "done"
            /\ queryResult' = QueryCatchRethrow("Failed to compute query embedding")
            /\ UNCHANGED <<skipped, sims, top, context, qlog>>
       ELSE LET validItems == SelectSeq(items, HasEmbedding)
            IN  /\ skipped' = Len(items) - Len(validItems)
                /\ sims' = sort([i \in 1..Len(validItems) |-> Scored(validItems[i], q.elems)])
                /\ top' = slice(sims', TOP_K(envTOP_K))
                /\ context' = [i \in 1..Len(top') |-> ContextBlock(top'[i], i - 1)]
                /\ qlog' = Append(qlog, "llm.invoke")
                /\ qpc' = "chat"
                /\ UNCHANGED queryResult
    /\ UNCHANGED <<embeddingsFile, envTOP_K, items>>
    /\ UNCHANGED <<ivars, cvars>>

EmbedQueryThrows ==
    /\ qpc = "embed"
    /\ qpc' = "done"
    /\ queryResult' = QueryCatchRethrow("embeddings")
    /\ UNCHANGED <<embeddingsFile, envTOP_K, items, qEmbedding, skipped, sims, top, context,
                   qlog>>
    /\ UNCHANGED <<ivars, cvars>>

\* Lines 263-267: llm.invoke() resolves; the response is printed
ChatReturns ==
    /\ qpc = "chat"
    /\ qpc' = "done"
    /\ queryResult' = Returned
    /\ UNCHANGED <<embeddingsFile, envTOP_K, items, qEmbedding, skipped, sims, top, context,
                   qlog>>
    /\ UNCHANGED <<ivars, cvars>>

ChatThrows ==
    /\ qpc = "chat"
    /\ qpc' = "done"
    /\ queryResult' = QueryCatchRethrow("chat")
    /\ UNCHANGED <<embeddingsFile, envTOP_K, items, qEmbedding, skipped, sims, top, context,
                   qlog>>
    /\ UNCHANGED <<ivars, cvars>>

QueryNext ==
    \/ LoadReturns
    \/ LoadThrows
    \/ \E q \in EmbedQueryResults : EmbedQueryReturns(q)
    \/ EmbedQueryThrows
    \/ ChatReturns
    \/ ChatThrows

----------------------------------------------------------------------------
(* Specifications *)

IngestIdle ==
    /\ ipc = "idle"
    /\ data = <<>>
    /\ filteredDocs = <<>>
    /\ docs = <<>>
    /\ cleanedDocs = <<>>
    /\ finalDocs = <<>>
    /\ vectors = <<>>
    /\ outputFile = <<>>
    /\ ilog = <<>>
    /\ ingestResult = Running

\* One run of ingestPDF
InitIngest == IngestInit /\ QueryIdle /\ CosineIdle
SpecIngest == InitIngest /\ [][IngestNext]_vars

\* One run of queryEmbeddings
InitQuery == IngestIdle /\ QueryInit /\ CosineIdle
SpecQuery == InitQuery /\ [][QueryNext]_vars

\* One call of cosine
InitCosine == IngestIdle /\ QueryIdle /\ CosineInit
SpecCosine == InitCosine /\ [][CosineReturns]_vars

\* One use of the module (lines 327-355): an ingestion, a query, or a call of
\* the exported cosine
Init == InitIngest \/ InitQuery \/ InitCosine

Next == IngestNext \/ QueryNext \/ CosineReturns

Spec == Init /\ [][Next]_vars


----------------------------------------------------------------------------
(* Properties of ingestPDF, checked under SpecIngest *)

Range(s) == {s[i] : i \in 1..Len(s)}

\* The number of words of a text: the places where a run of non-space
\* characters begins
WordCount(t) ==
    Cardinality({i \in 1..Len(t) :
                    /\ t[i] \notin WhiteSpace
                    /\ (i = 1 \/ t[i - 1] \in WhiteSpace)})

\* The number of characters of a text without its leading and trailing white space
TrimmedLength(t) ==
    Cardinality({i \in 1..Len(t) :
                    /\ \E j \in 1..i : t[j] \notin WhiteSpace
                    /\ \E j \in i..Len(t) : t[j] \notin WhiteSpace})

LoaderReturned == Len(ilog) >= 2
SplitterReturned == Len(ilog) >= 3
EmbedderCalled == "embeddings.embedDocuments" \in Range(ilog)
StoreWritten == outputFile # <<>>
Store == outputFile[Len(outputFile)]

\* C1: a run in which the loader, the splitter or the embedding service throws
\* ends with that exception and with the file at outputPath untouched; a run that
\* ends without an exception has written the file; no run writes the file more
\* than once, and what is written is [] or one record for every surviving chunk.
C1_NoPartialStore ==
    /\ Len(outputFile) <= 1
    /\ ipc = "done" => ingestResult.kind \in {"returned", "threw"}
    /\ ipc = "done" /\ ilog[Len(ilog)] = "loader.load" =>
            ingestResult = [kind |-> "threw", error |-> "loader"]
    /\ ipc = "done" /\ ilog[Len(ilog)] = "textSplitter.splitDocuments" =>
            ingestResult = [kind |-> "threw", error |-> "splitter"]
    /\ ipc = "done" /\ ilog[Len(ilog)] = "embeddings.embedDocuments" =>
            ingestResult = [kind |-> "threw", error |-> "embeddings"]
    /\ ingestResult.kind = "threw" => outputFile = <<>>
    /\ ingestResult.kind = "returned" => Len(outputFile) = 1
    /\ StoreWritten =>
            \/ Store = <<>>
            \/ /\ Len(Store) = Len(finalDocs)
               /\ \A i \in 1..Len(Store) :
                    /\ Store[i].text = finalDocs[i].pageContent
                    /\ Store[i].embedding = vectors[i]

\* C1 witness: the embedding service threw and nothing was written
C1_Witness ==
    /\ ipc = "done"
    /\ ingestResult = [kind |-> "threw", error |-> "embeddings"]
    /\ finalDocs # <<>>
    /\ outputFile = <<>>

ZeroAfterPageFilter == LoaderReturned /\ filteredDocs = <<>>
ZeroAfterSplitting == SplitterReturned /\ docs = <<>>
ZeroAfterCleaning == SplitterReturned /\ docs # <<>> /\ finalDocs = <<>>

\* C2: when no fragment is left after the page-level filter, after splitting or
\* after the post-cleaning filter, the run writes exactly [] once, returns
\* normally, and never calls the embedding service.
C2_EmptyOutcome ==
    ZeroAfterPageFilter \/ ZeroAfterSplitting \/ ZeroAfterCleaning =>
        /\ outputFile = << <<>> >>
        /\ ipc = "done"
        /\ ingestResult = Returned
        /\ ~EmbedderCalled

\* C2 witness: chunks were produced and none survived the cleaning
C2_Witness == ZeroAfterCleaning /\ ipc = "done" /\ outputFile = << <<>> >>

Accepts20And5(t) == TrimmedLength(t) > 20 /\ WordCount(t) >= 5
AcceptsNonEmptyAnd5(t) == Len(t) > 0 /\ WordCount(t) >= 5

PageAccepted(doc) == Accepts20And5(doc.pageContent)
ChunkAccepted20And5(doc) == Accepts20And5(doc.pageContent)
ChunkAcceptedNonEmptyAnd5(doc) == AcceptsNonEmptyAnd5(doc.pageContent)

\* C3 as stated: the same predicate (more than 20 characters trimmed, at least
\* 5 words) decides both filters, so every record of a written store has a text
\* of more than 20 characters and at least 5 words.
C3_SamePredicateAtBothFilters ==
    /\ LoaderReturned => filteredDocs = SelectSeq(data, PageAccepted)
    /\ SplitterReturned => finalDocs = SelectSeq(cleanedDocs, ChunkAccepted20And5)
    /\ StoreWritten => \A i \in 1..Len(Store) : Accepts20And5(Store[i].text)

\* C3 as amended: the page-level filter keeps a page iff its trimmed text has
\* more than 20 characters and at least 5 words; the post-cleaning filter keeps
\* a cleaned chunk iff its text is not empty and has at least 5 words.  Every
\* record of a written store has a non-empty text of at least 5 words.
C3_FilterPredicates ==
    /\ LoaderReturned => filteredDocs = SelectSeq(data, PageAccepted)
    /\ SplitterReturned => finalDocs = SelectSeq(cleanedDocs, ChunkAcceptedNonEmptyAnd5)
    /\ StoreWritten => \A i \in 1..Len(Store) : AcceptsNonEmptyAnd5(Store[i].text)

\* C3 witness: a page of exactly 20 characters and 5 words was rejected, and a
\* record of at most 20 characters is in the written store
C3_Witness ==
    /\ \E i \in 1..Len(data) :
            /\ TrimmedLength(data[i].pageContent) = 20
            /\ WordCount(data[i].pageContent) = 5
            /\ data[i] \notin Range(filteredDocs)
    /\ StoreWritten
    /\ \E i \in 1..Len(Store) : Len(Store[i].text) <= 20

\* C4: in a written store of N records the record at position i (from 0) has
\* the id chunk-i, so the ids are distinct; it holds the text of the i-th
\* surviving chunk and the i-th vector the embedding service returned.
C4_DenseIds ==
    StoreWritten =>
        /\ Len(Store) = Len(finalDocs)
        /\ \A i \in 1..Len(Store) :
                /\ Store[i].id = <<"chunk-", i - 1>>
                /\ Store[i].text = finalDocs[i].pageContent
                /\ Store[i].embedding = vectors[i]
        /\ \A i, j \in 1..Len(Store) : i # j => Store[i].id # Store[j].id

\* C4 witness: a store of two or more records, written after a chunk was dropped
C4_Witness ==
    /\ StoreWritten
    /\ Len(Store) >= 2
    /\ Len(Store) < Len(docs)

SourceOrEmpty(metadata) == IF metadata.source = "undefined" THEN "" ELSE metadata.source

----------------------------------------------------------------------------
(* Properties of cosine, checked under SpecCosine *)

\* An element as a number: what is not a number counts as 0
ValueOf(x) == IF x = NaN THEN 0 ELSE x.v

RECURSIVE Dot(_, _)
Dot(x, y) ==
    IF x = <<>> \/ y = <<>> THEN 0
    ELSE ValueOf(x[1]) * ValueOf(y[1]) + Dot(Tail(x), Tail(y))

PrefixA == SubSeq(a, 1, MinLength(a, b))
PrefixB == SubSeq(b, 1, MinLength(a, b))

\* C8: cosine(a, b) is cosine of the prefixes of length min(|a|, |b|): it is
\* sign(d) * d^2 / (|a'|^2 * |b'|^2) for the dot product d and the magnitudes of
\* the prefixes a', b'; the elements after them change nothing; it is 0 when a
\* vector is empty or a prefix has magnitude 0; cosine([1,0,0],[1,0]) = 1.
C8_TruncationToShorter ==
    cosineResult.returned =>
        LET d == Dot(PrefixA, PrefixB)
            na == Dot(PrefixA, PrefixA)
            nb == Dot(PrefixB, PrefixB)
            r == cosineResult.value
        IN  /\ r = cosine(PrefixA, PrefixB)
            /\ \A e \in Elements :
                    /\ cosine(Append(PrefixA, e), PrefixB) = r
                    /\ cosine(PrefixA, Append(PrefixB, e)) = r
            /\ r[2] > 0
            /\ a = <<>> \/ b = <<>> \/ na = 0 \/ nb = 0 => r = Zero
            /\ na # 0 /\ nb # 0 =>
                    /\ r[1] * na * nb = r[2] * Sign(d) * d * d
                    /\ Gcd(Abs(r[1]), r[2]) = 1
            /\ a = <<Num(1), Num(0), Num(0)>> /\ b = <<Num(1), Num(0)>> => r = One

\* C8 witness: the longer vector has a non-zero element after the prefix, and
\* the result is 1
C8_Witness ==
    /\ cosineResult.returned
    /\ Len(a) = 3
    /\ Len(b) = 2
    /\ ValueOf(a[3]) # 0
    /\ cosineResult.value = One


----------------------------------------------------------------------------
(* Properties of loadEmbeddings and queryEmbeddings, checked under SpecQuery *)

LoadSucceeded == "embeddings.embedQuery" \in Range(qlog)
Ranked == "llm.invoke" \in Range(qlog)
StoredArray == embeddingsFile.array

Smaller(m, n) == IF m <= n THEN m ELSE n

\* TOP_K as configured: the number in the environment, 9 without one
ConfiguredK == IF envTOP_K = <<>> THEN 9 ELSE Decimal(envTOP_K)

\* The order of two scores <<p, q>>, q > 0
ScoreLess(s, t) == s[1] * t[2] < t[1] * s[2]

\* The position in the store of the record with this id
StorePosition(id) == id[2] + 1

\* The positions of the stored records that have a non-empty embedding array
ScoredPositions ==
    {i \in 1..Len(StoredArray) :
        /\ StoredArray[i].embedding.t = "array"
        /\ StoredArray[i].embedding.elems # <<>>}

\* C5: the scored records are sorted by descending cosine score, records of
\* equal score in their order in the store; the records selected are the first
\* min(K, n) of the n scored records, K the configured TOP_K (9 by default); no
\* selected record scores lower than a record not selected; the context blocks
\* are the selected records in that order, ranked 1..min(K, n).
C5_TopKRanking ==
    Ranked =>
        LET n == Len(sims)
            k == Smaller(ConfiguredK, n)
        IN  /\ {StorePosition(sims[i].id) : i \in 1..n} = ScoredPositions
            /\ n = Cardinality(ScoredPositions)
            /\ \A i \in 1..n :
                    sims[i].score = cosine(qEmbedding.elems, items[StorePosition(sims[i].id)].embedding)
            /\ \A i, j \in 1..n : i < j => ~ScoreLess(sims[i].score, sims[j].score)
            /\ \A i, j \in 1..n :
                    i < j /\ sims[i].score = sims[j].score =>
                        StorePosition(sims[i].id) < StorePosition(sims[j].id)
            /\ top = SubSeq(sims, 1, k)
            /\ \A i \in 1..k : \A j \in (k + 1)..n : ~ScoreLess(sims[i].score, sims[j].score)
            /\ Len(context) = k
            /\ \A i \in 1..k :
                    /\ context[i].rank = i
                    /\ context[i].id = top[i].id
                    /\ context[i].text = top[i].text

\* C5 witness: three scored records, two of them tied, the best one not first in
\* the store, and two selected
C5_Witness ==
    /\ Ranked
    /\ Len(sims) = 3
    /\ Len(top) = 2
    /\ StorePosition(sims[1].id) # 1
    /\ ScoreLess(sims[3].score, sims[1].score)
    /\ \E i \in 1..2 : sims[i].score = sims[i + 1].score

\* A stored embedding that is missing, empty or no array at all
BadEmbedding(item) == item.embedding.t # "array" \/ item.embedding.elems = <<>>

MetadataReadable(item) == item.metadata.t = "string" => item.metadata.isJSON

BadPositions == {i \in 1..Len(StoredArray) : BadEmbedding(StoredArray[i])}

\* C6: of a store that is an array of records, a record whose embedding is
\* missing, empty or otherwise invalid does not fail the query: loading
\* succeeds, exactly those records are skipped and counted, the others are
\* scored and ranked, and the chat service is invoked.
C6_BadRecordsAreSkipped ==
    /\ embeddingsFile.state = "array"
    /\ \A i \in 1..Len(StoredArray) : MetadataReadable(StoredArray[i])
    =>
    /\ qpc # "load" => LoadSucceeded
    /\ qpc \in {"chat", "done"} /\ qEmbedding.isArray /\ qEmbedding.elems # <<>> =>
            /\ Ranked
            /\ skipped = Cardinality(BadPositions)
            /\ Len(sims) = Len(StoredArray) - Cardinality(BadPositions)

IsNumericString(v) ==
    /\ v.t = "string"
    /\ v.chars # <<>>
    /\ \A i \in 1..Len(v.chars) : v.chars[i] \in Digits

\* An entry that is a number, or a string that spells one
NumericValue(v) == IF v.t = "number" THEN v.n ELSE Decimal(v.chars)
IsNumeric(v) == v.t = "number" \/ IsNumericString(v)

\* C7 as stated: loadEmbeddings returns for each stored element an embedding of
\* the stored length in which every non-numeric entry is 0, an empty embedding
\* when the field is absent, and a string metadata as its JSON-parsed value.
C7_NonNumericBecomesZero ==
    LoadSucceeded =>
        /\ Len(items) = Len(StoredArray)
        /\ \A i \in 1..Len(items) :
            LET stored == StoredArray[i].embedding
            IN  /\ stored.t = "undefined" => items[i].embedding = <<>>
                /\ stored.t = "array" =>
                    /\ Len(items[i].embedding) = Len(stored.elems)
                    /\ \A j \in 1..Len(stored.elems) :
                        items[i].embedding[j] =
                            IF IsNumeric(stored.elems[j])
                            THEN Num(NumericValue(stored.elems[j])) ELSE Num(0)
                /\ StoredArray[i].metadata.t = "string" =>
                    items[i].metadata = StoredArray[i].metadata.value

\* C7 as amended: when loadEmbeddings returns, each stored embedding array has
\* become a sequence of the same length in which every entry v is Number(v): a
\* number is kept, a numeric string is its number, null is 0, and a non-numeric
\* string is NaN, not 0; an absent embedding has become the empty sequence; a
\* string metadata has become its JSON-parsed value.
C7_NumberCoercion ==
    LoadSucceeded =>
        /\ Len(items) = Len(StoredArray)
        /\ \A i \in 1..Len(items) :
            LET stored == StoredArray[i].embedding
            IN  /\ stored.t = "undefined" => items[i].embedding = <<>>
                /\ stored.t = "array" =>
                    /\ Len(items[i].embedding) = Len(stored.elems)
                    /\ \A j \in 1..Len(stored.elems) :
                        items[i].embedding[j] =
                            IF IsNumeric(stored.elems[j])
                            THEN Num(NumericValue(stored.elems[j]))
                            ELSE IF stored.elems[j].t = "null" THEN Num(0) ELSE NaN
                /\ StoredArray[i].metadata.t = "string" =>
                    items[i].metadata = StoredArray[i].metadata.value
                /\ items[i].id = StoredArray[i].id
                /\ items[i].text = StoredArray[i].text

\* C7 witness: a loaded store with a non-numeric entry, a record without
\* embedding and a record whose metadata is a string
C7_Witness ==
    /\ LoadSucceeded
    /\ \E i \in 1..Len(items) : \E j \in 1..Len(items[i].embedding) : items[i].embedding[j] = NaN
    /\ \E i \in 1..Len(items) : StoredArray[i].embedding.t = "undefined"
    /\ \E i \in 1..Len(items) : StoredArray[i].metadata.t = "string"

QuerySteps == <<"fs.readFileSync", "embeddings.embedQuery", "llm.invoke">>

\* The steps are taken in order, each at most once
StepsInOrder == Len(qlog) <= Len(QuerySteps) /\ qlog = SubSeq(QuerySteps, 1, Len(qlog))

StoreUnreadable == embeddingsFile.state \in {"missing", "garbage"}
EmbedQueryFailed ==
    qpc = "done" /\ qlog # <<>> /\ qlog[Len(qlog)] = "embeddings.embedQuery"

\* What C10 says of every run but the last conjunct of the claim
OrderAndEarlyFailures ==
    /\ StepsInOrder
    /\ qpc = "done" => queryResult.kind \in {"returned", "threw"}
    /\ queryResult.kind = "returned" => qlog = QuerySteps
    /\ StoreUnreadable /\ qpc # "load" =>
            /\ queryResult.kind = "threw"
            /\ queryResult.error \in {"ENOENT", "SyntaxError"}
            /\ qlog = <<"fs.readFileSync">>
    /\ EmbedQueryFailed =>
            /\ queryResult.kind = "threw"
            /\ queryResult.error \in {"embeddings", "Failed to compute query embedding"}
    /\ qpc # "embed" /\ LoadSucceeded /\ (~qEmbedding.isArray \/ qEmbedding.elems = <<>>) =>
            EmbedQueryFailed

\* C10 as stated: load, embed the query, rank, invoke the chat, in that order
\* and each service at most once; an unreadable store fails the run before the
\* embedding service is called; a failed, non-array or empty query embedding
\* fails the run; in every failing run the chat service is never invoked.
C10_ChatNeverInvokedWhenFailing ==
    /\ OrderAndEarlyFailures
    /\ queryResult.kind = "threw" => ~Ranked

\* C10 as amended: the same, except that the chat service is never invoked in a
\* run that fails while loading the store or embedding the query; a run also
\* fails, with the chat service invoked once, when the chat invocation throws.
C10_StepOrder ==
    /\ OrderAndEarlyFailures
    /\ queryResult.kind = "threw" /\ queryResult.error # "chat" => ~Ranked
    /\ queryResult.kind = "threw" /\ queryResult.error = "chat" => qlog = QuerySteps

\* C10 witness: the embedding service returned an empty array and the run failed
\* without invoking the chat service
C10_Witness ==
    /\ qpc = "done"
    /\ qEmbedding.isArray
    /\ qEmbedding.elems = <<>>
    /\ queryResult = [kind |-> "threw", error |-> "Failed to compute query embedding"]
    /\ ~Ranked

====
